---- MODULE Spec2Model ----
(***************************************************************************)
(* Sewing schedule visualizers.                                            *)
(*                                                                         *)
(*   src/dynamic_gantt.py          the Dash dashboard: parse_upload,       *)
(*                                 update_filter_options and               *)
(*                                 update_dynamic_graph, chained by the    *)
(*                                 framework through the dcc.Store         *)
(*   src/Locally Ran/gantt_app.py  the desktop app:                        *)
(*                                 load_and_process_data,                  *)
(*                                 group_and_sort_sewers and               *)
(*                                 generate_gantt_chart                    *)
(*                                                                         *)
(* A text cell is a record [t, v] with v a sequence of one-character       *)
(* strings, a numeric or timestamp cell a record [t, v] with v an integer. *)
(* The tag t tells a value ("str", "num", "ts") from a missing one         *)
(* ("nan": the NaN / NaT pandas gives an empty CSV cell).                  *)
(***************************************************************************)
EXTENDS Integers, Sequences, FiniteSets, TLC

VARIABLES
    contents,          \* upload-data.contents: <<>> (None) or <<file>>
    stored,            \* stored-data.data: <<>> (None) or <<json>>
    status,            \* upload-status.children
    machine_options,   \* machine-filter-dropdown.options
    sewtype_options,   \* sewtype-filter-dropdown.options
    sewer_options,     \* sewer-filter-dropdown.options
    machine_filter,    \* machine-filter-dropdown.value
    sewtype_filter,    \* sewtype-filter-dropdown.value
    sewer_filter,      \* sewer-filter-dropdown.value
    view_by,           \* view-by-dropdown.value
    color_by,          \* color-by-dropdown.value
    figure,            \* dynamic-graph.figure
    pending,           \* callbacks the framework still has to run, in order
    csv,               \* desktop: the file picked in the dialog, <<>> or <<file>>
    frame,             \* desktop: the df load_and_process_data returned
    dominant,          \* desktop: group_and_sort_sewers' dominant_sorted table
    sorted_sewers,     \* desktop: the list group_and_sort_sewers returned
    popup,             \* desktop: what the user sees: chart, error box, nothing
    dpc                \* desktop: "dialog" while the handler has yet to run

dashVars == <<contents, stored, status, machine_options, sewtype_options,
              sewer_options, machine_filter, sewtype_filter, sewer_filter,
              view_by, color_by, figure, pending>>
deskVars == <<csv, frame, dominant, sorted_sewers, popup, dpc>>
vars == <<contents, stored, status, machine_options, sewtype_options,
          sewer_options, machine_filter, sewtype_filter, sewer_filter,
          view_by, color_by, figure, pending,
          csv, frame, dominant, sorted_sewers, popup, dpc>>

----------------------------------------------------------------------------
(* Bounds *)

MaxRows == 2            \* rows of a clean upload
MaxLoadRows == 2        \* rows of an upload the loader has to judge
MaxSessionRows == 1     \* rows of each upload of a session
MaxOperations == 3      \* rows of a schedule of the desktop app

----------------------------------------------------------------------------
(* Values *)

Str(s) == [t |-> "str", v |-> s]
NaN == [t |-> "nan", v |-> <<>>]
NoneValue == [t |-> "none", v |-> <<>>]
Absent == [t |-> "absent", v |-> <<>>]
Num(n) == [t |-> "num", v |-> n]
NonNumeric == [t |-> "str", v |-> 0]
NaNum == [t |-> "nan", v |-> 0]
AbsentNum == [t |-> "absent", v |-> 0]
Ts(m) == [t |-> "ts", v |-> m]
BadTs == [t |-> "bad", v |-> 0]
NaT == [t |-> "nan", v |-> 0]
Iso(m) == [t |-> "iso", v |-> m]
Null == [t |-> "null", v |-> 0]

ALL == Str(<<"A", "L", "L">>)
Unknown == Str(<<"U", "n", "k", "n", "o", "w", "n">>)
NanText == Str(<<"n", "a", "n">>)
NoneName == "None"

Range(s) == {s[i] : i \in 1..Len(s)}
SeqsUpTo(S, n) == UNION {[1..k -> S] : k \in 0..n}

\* Characters in code-point order, the order Python and pandas sort text by.
Alphabet == <<" ", "A", "B", "L", "M", "N", "U", "X", "Y", "a", "k", "n", "o", "w">>
CharRankOf ==
    [c \in {Alphabet[i] : i \in 1..Len(Alphabet)} |->
        CHOOSE i \in 1..Len(Alphabet) : Alphabet[i] = c]
CharRank(c) == CharRankOf[c]

StrLess(a, b) ==
    \E k \in 1..Len(b) :
        /\ \A i \in 1..(k - 1) : i <= Len(a) /\ a[i] = b[i]
        /\ (k > Len(a) \/ CharRank(a[k]) < CharRank(b[k]))

\* str.strip(): drop the leading and trailing whitespace.
strip(s) ==
    LET keep == {i \in 1..Len(s) : s[i] # " "}
    IN IF keep = {} THEN <<>>
       ELSE LET lo == CHOOSE i \in keep : \A j \in keep : i <= j
                hi == CHOOSE i \in keep : \A j \in keep : j <= i
            IN SubSeq(s, lo, hi)

\* F(x), with x evaluated once.
With(x, F(_)) == CHOOSE y \in {F(v) : v \in {x}} : TRUE

\* A stable sort of s by the strict order KeyLess on its elements: element i
\* goes to the place that counts the elements sorted before it.
StableSortOf(s, KeyLess(_, _)) ==
    LET Before(i, j) == KeyLess(s[i], s[j]) \/ (~KeyLess(s[j], s[i]) /\ i < j)
        Place(i) == 1 + Cardinality({j \in 1..Len(s) : Before(j, i)})
        place == [i \in 1..Len(s) |-> Place(i)]
    IN With(place, LAMBDA p : [k \in 1..Len(s) |-> s[CHOOSE i \in 1..Len(s) : p[i] = k]])
StableSort(seq, KeyLess(_, _)) == With(seq, LAMBDA s : StableSortOf(s, KeyLess))

TextLess(x, y) == StrLess(x.v, y.v)

\* sorted(series.unique()) raises TypeError when it has to compare a missing
\* value with a string.
Sortable(vals) == Cardinality(vals) <= 1 \/ \A x \in vals : x.t = "str"
RECURSIVE SetToSeq(_)
SetToSeq(S) ==
    IF S = {} THEN <<>>
    ELSE LET x == CHOOSE y \in S : TRUE IN <<x>> \o SetToSeq(S \ {x})
\* sorted(series.unique()): each distinct value at the place that counts the
\* values below it.
SortedUniqueOf(vals) ==
    [k \in 1..Cardinality(vals) |->
        CHOOSE x \in vals : Cardinality({y \in vals : TextLess(y, x)}) = k - 1]
SortedUnique(set) == With(set, LAMBDA vals : SortedUniqueOf(vals))

----------------------------------------------------------------------------
(* CSV files *)

Columns == {"Sewer Name", "Machine Name", "Sew Type", "Start Time", "Operation Time"}

Row(sw, mc, ty, st, op) ==
    [sewer |-> sw, machine |-> mc, type |-> ty, start |-> st, op |-> op]

\* A file has only the cells of the columns its header names.
Mask(r, cols) ==
    [sewer   |-> IF "Sewer Name" \in cols THEN r.sewer ELSE Absent,
     machine |-> IF "Machine Name" \in cols THEN r.machine ELSE Absent,
     type    |-> IF "Sew Type" \in cols THEN r.type ELSE Absent,
     start   |-> IF "Start Time" \in cols THEN r.start ELSE AbsentNum,
     op      |-> IF "Operation Time" \in cols THEN r.op ELSE AbsentNum]

Files(headers, rows, n) ==
    {[cols |-> h, rows |-> [i \in 1..Len(rs) |-> Mask(rs[i], h)]] :
        h \in headers, rs \in SeqsUpTo(rows, n)}

Headers == {Columns} \cup {Columns \ {c} : c \in Columns} \cup {{}}

\* Clean rows that differ in the three categorical fields, every two of which
\* take all four pairs of values.
FilterRows ==
    {Row(Str(s), Str(m), Str(IF (s = <<"A">>) = (m = <<"M">>) THEN <<"X">> ELSE <<"Y">>),
         Ts(480), Num(30)) :
        s \in {<<"A">>, <<"B">>}, m \in {<<"M">>, <<"N">>}}
FilterFiles == Files({Columns}, FilterRows, MaxRows)

\* Rows with the cells a loader has to judge.
LoadRows ==
    {Row(s, Str(<<"M">>), Str(<<"X">>), st, op) :
        s \in {Str(<<" ", "A">>), Str(<<" ">>), NaN},
        st \in {Ts(480), BadTs, NaT},
        op \in {Num(30), Num(-30), NonNumeric}}
LoadFiles == Files(Headers, LoadRows, MaxLoadRows)

\* Uploads of a session: good ones, ones the loader rejects, ones it chokes on.
SessionRows ==
    {Row(Str(s), Str(<<"M">>), Str(<<"X">>), c[1], c[2]) :
        s \in {<<"A">>, <<"B">>},
        c \in {<<Ts(480), Num(30)>>, <<BadTs, Num(30)>>, <<Ts(480), NonNumeric>>}}
SessionFiles == Files({Columns}, SessionRows, MaxSessionRows)

\* Schedules for the desktop app: two sewers, two sew types or none, two durations.
DeskRows ==
    {Row(Str(s), Str(<<"M">>), ty, Ts(480), Num(op)) :
        s \in {<<"A">>, <<"B", " ">>}, ty \in {Str(<<"X">>), Str(<<"Y">>), NaN},
        op \in {30, 60}}
        \cup {Row(Str(<<"A">>), Str(<<"M">>), Str(<<"Y">>), Ts(420), Num(30))}
DeskFiles ==
    Files({Columns}, DeskRows, MaxOperations)
        \cup Files(Headers, {Row(Str(<<"A">>), Str(<<"M">>), Str(<<"X">>), Ts(480), Num(30)),
                             Row(Str(<<"A">>), Str(<<"M">>), Str(<<"X">>), BadTs, NonNumeric)}, 1)

----------------------------------------------------------------------------
(* The dashboard: src/dynamic_gantt.py *)

Msg(kind, col) == [kind |-> kind, col |-> col]
Returned(d, s) == [raised |-> FALSE, data |-> d, status |-> s]
Raised == [raised |-> TRUE, data |-> <<>>, status |-> Msg("exception", "")]

required_columns == <<"Sewer Name", "Start Time", "Operation Time", "Sew Type">>

\* df["Sewer Name"].astype(str).str.strip(): a missing cell becomes the text "nan".
StripSewerAsStr(c) == IF c.t = "str" THEN Str(strip(c.v)) ELSE NanText

\* pd.to_datetime(..., format="%Y-%m-%d %H:%M") raises on a text that does not
\* match and passes a missing cell through as NaT.
to_datetime(c) == IF c.t = "ts" THEN Ts(c.v) ELSE NaT
DatetimeRaises(rows) == \E i \in 1..Len(rows) : rows[i].start.t = "bad"

\* pd.to_timedelta(..., unit="m") raises on a column of non-numeric text.
TimedeltaRaises(rows) == \E i \in 1..Len(rows) : rows[i].op.t = "str"

\* Start Time + to_timedelta(Operation Time, unit="m"); NaT when either is missing.
EndTime(start, op) ==
    IF start.t = "ts" /\ op.t = "num" THEN Ts(start.v + op.v) ELSE NaT

\* df.to_json(date_format="iso", orient="split"): timestamps become ISO text,
\* missing values null.
JsonDate(c) == IF c.t = "ts" THEN Iso(c.v) ELSE Null
JsonText(c) == IF c.t = "str" THEN c ELSE [t |-> "null", v |-> <<>>]
JsonNumber(c) == IF c.t = "num" THEN c ELSE Null
to_json(rows) ==
    [data |-> [i \in 1..Len(rows) |->
        [sewer   |-> JsonText(rows[i].sewer),
         machine |-> JsonText(rows[i].machine),
         type    |-> JsonText(rows[i].type),
         start   |-> JsonDate(rows[i].start),
         op      |-> JsonNumber(rows[i].op),
         end     |-> JsonDate(rows[i].end)]]]

\* pd.read_json(data, orient="split"): null is a missing value again; "Start Time"
\* and "End Time" are not names read_json takes for dates, so they stay ISO text.
FromJsonText(c) == IF c.t = "null" THEN NaN ELSE c
FromJsonNumber(c) == IF c.t = "null" THEN NaNum ELSE c
read_json(json) ==
    [i \in 1..Len(json.data) |->
        [sewer   |-> FromJsonText(json.data[i].sewer),
         machine |-> FromJsonText(json.data[i].machine),
         type    |-> FromJsonText(json.data[i].type),
         start   |-> json.data[i].start,
         op      |-> FromJsonNumber(json.data[i].op),
         end     |-> json.data[i].end]]

FirstMissing(cols) ==
    required_columns[CHOOSE i \in 1..Len(required_columns) :
        /\ required_columns[i] \notin cols
        /\ \A j \in 1..(i - 1) : required_columns[j] \in cols]

ProcessedRows(f) ==
    [i \in 1..Len(f.rows) |->
        [sewer   |-> StripSewerAsStr(f.rows[i].sewer),
         machine |-> IF "Machine Name" \in f.cols THEN f.rows[i].machine ELSE Unknown,
         type    |-> f.rows[i].type,
         start   |-> to_datetime(f.rows[i].start),
         op      |-> f.rows[i].op,
         end     |-> EndTime(to_datetime(f.rows[i].start), f.rows[i].op)]]

parse_upload(c) ==
    IF c = <<>> THEN Returned(<<>>, Msg("no_file", ""))
    ELSE LET f == c[1] IN
        IF f.cols = {} THEN Returned(<<>>, Msg("csv_error", ""))
        ELSE IF \E i \in 1..Len(required_columns) : required_columns[i] \notin f.cols
        THEN Returned(<<>>, Msg("missing_column", FirstMissing(f.cols)))
        ELSE IF DatetimeRaises(f.rows) THEN Returned(<<>>, Msg("parse_error", ""))
        ELSE IF TimedeltaRaises(f.rows) THEN Raised
        ELSE Returned(<<to_json(ProcessedRows(f))>>, Msg("uploaded", ""))

Column(df, name) ==
    {(IF name = "Machine Name" THEN df[i].machine
      ELSE IF name = "Sew Type" THEN df[i].type
      ELSE df[i].sewer) : i \in 1..Len(df)}

Options(vals) == <<ALL>> \o SortedUnique(vals)

update_filter_options(data) ==
    IF data = <<>>
    THEN [raised |-> FALSE, machine |-> <<>>, sewtype |-> <<>>, sewer |-> <<>>,
          value |-> NoneValue]
    ELSE With(read_json(data[1]),
              LAMBDA df :
                IF \E n \in {"Machine Name", "Sew Type", "Sewer Name"} :
                        ~Sortable(Column(df, n))
                THEN [raised |-> TRUE, machine |-> <<>>, sewtype |-> <<>>,
                      sewer |-> <<>>, value |-> NoneValue]
                ELSE [raised  |-> FALSE,
                      machine |-> Options(Column(df, "Machine Name")),
                      sewtype |-> Options(Column(df, "Sew Type")),
                      sewer   |-> Options(Column(df, "Sewer Name")),
                      value   |-> ALL])

Fig(kind, rows, cats, y, color, height) ==
    [kind |-> kind, rows |-> rows, categories |-> cats, y |-> y, color |-> color,
     height |-> height]
EmptyFigure == Fig("empty", <<>>, <<>>, NoneName, NoneName, 0)
\* A slip: the empty subset falls through to the except branch.
NoMatchAsError == Fig("error", <<>>, <<>>, NoneName, NoneName, 0)
NoMatchFigure == Fig("no_match", <<>>, <<>>, NoneName, NoneName, 0)
ErrorFigure == Fig("error", <<>>, <<>>, NoneName, NoneName, 0)

\* `if value and value != "ALL"`: None and the empty text are falsy.
Active(value) == value.t = "str" /\ value.v # <<>> /\ value # ALL

FilterMachine(df, value) ==
    LET Keep(r) == r.machine = value
    IN IF Active(value) THEN SelectSeq(df, Keep) ELSE df
\* A slip: the sew-type filter is never applied.
FilterSewTypeSkipped(df, value) == df

FilterSewType(df, value) ==
    LET Keep(r) == r.type = value
    IN IF Active(value) THEN SelectSeq(df, Keep) ELSE df
FilterSewer(df, value) ==
    LET Keep(r) == r.sewer = value
    IN IF Active(value) THEN SelectSeq(df, Keep) ELSE df

NoFilterApplied(mf, stf, sf) == mf = ALL /\ stf = ALL /\ sf = ALL

Max(a, b) == IF a >= b THEN a ELSE b
ChartHeight(categories) == Max(600, 40 * Len(categories))

\* A slip: the category axis is always the full dataset's.
CategorySourceAlwaysFull(full_df, df, mf, stf, sf) == full_df

\* The frame whose view_by values make the category axis.
CategorySource(full_df, df, mf, stf, sf) ==
    IF NoFilterApplied(mf, stf, sf) THEN full_df ELSE df

\* The chart of the filtered frame df: px.timeline, the category axis, the layout.
\* A cleared view_by makes full_df[view_by] raise, an unsortable axis sorted().
Timeline(full_df, df, view, color, mf, stf, sf) ==
    IF view = NoneName THEN ErrorFigure
    ELSE With(Column(CategorySource(full_df, df, mf, stf, sf), view),
              LAMBDA vals :
                IF ~Sortable(vals) THEN ErrorFigure
                ELSE With(SortedUnique(vals),
                          LAMBDA categories :
                            Fig("chart", df, categories, view, color,
                                ChartHeight(categories))))

update_dynamic_graph(data, view, color, mf, stf, sf) ==
    IF data = <<>> THEN EmptyFigure
    ELSE With(read_json(data[1]),
              LAMBDA full_df :
                With(FilterSewer(FilterSewType(FilterMachine(full_df, mf), stf), sf),
                     LAMBDA df :
                        IF df = <<>> THEN NoMatchFigure
                        ELSE Timeline(full_df, df, view, color, mf, stf, sf)))

----------------------------------------------------------------------------
(* The dashboard's steps.  The framework runs a callback when one of its     *)
(* inputs changed, one at a time: parse_upload on a new upload, then          *)
(* update_filter_options and update_dynamic_graph on the new store; the       *)
(* graph alone on a dropdown change.  A callback that raises leaves its       *)
(* outputs as they were, and the callbacks that wait for them do not run.     *)

DeskIdle ==
    /\ csv = <<>>
    /\ frame = <<>>
    /\ dominant = <<>>
    /\ sorted_sewers = <<>>
    /\ popup = "none"
    /\ dpc = "idle"

DashLayout ==
    /\ stored = <<>>
    /\ status = Msg("layout", "")
    /\ machine_options = <<>>
    /\ sewtype_options = <<>>
    /\ sewer_options = <<>>
    /\ machine_filter = NoneValue
    /\ sewtype_filter = NoneValue
    /\ sewer_filter = NoneValue
    /\ view_by = "Sewer Name"
    /\ color_by = "Sew Type"
    /\ figure = EmptyFigure

Idle == pending = <<>>

ViewOptions == {"Machine Name", "Sew Type", "Sewer Name"}

Upload(f) ==
    /\ Idle
    /\ contents # <<f>>
    /\ contents' = <<f>>
    /\ pending' = <<"parse_upload">>
    /\ UNCHANGED <<stored, status, machine_options, sewtype_options, sewer_options,
                   machine_filter, sewtype_filter, sewer_filter, view_by, color_by,
                   figure>>
    /\ UNCHANGED deskVars

RunParseUpload ==
    /\ pending # <<>>
    /\ Head(pending) = "parse_upload"
    /\ \E r \in {parse_upload(contents)} :
        IF r.raised
        THEN /\ pending' = Tail(pending)
             /\ UNCHANGED <<stored, status>>
        ELSE /\ stored' = r.data
             /\ status' = r.status
             /\ pending' = <<"update_filter_options", "update_dynamic_graph">>
    /\ UNCHANGED <<contents, machine_options, sewtype_options, sewer_options,
                   machine_filter, sewtype_filter, sewer_filter, view_by, color_by,
                   figure>>
    /\ UNCHANGED deskVars

RunUpdateFilterOptions ==
    /\ pending # <<>>
    /\ Head(pending) = "update_filter_options"
    /\ \E r \in {update_filter_options(stored)} :
        IF r.raised
        THEN UNCHANGED <<machine_options, sewtype_options, sewer_options,
                         machine_filter, sewtype_filter, sewer_filter>>
        ELSE /\ machine_options' = r.machine
             /\ sewtype_options' = r.sewtype
             /\ sewer_options' = r.sewer
             /\ machine_filter' = r.value
             /\ sewtype_filter' = r.value
             /\ sewer_filter' = r.value
    /\ pending' = Tail(pending)
    /\ UNCHANGED <<contents, stored, status, view_by, color_by, figure>>
    /\ UNCHANGED deskVars

RunUpdateDynamicGraph ==
    /\ pending # <<>>
    /\ Head(pending) = "update_dynamic_graph"
    /\ figure' = update_dynamic_graph(stored, view_by, color_by, machine_filter,
                                      sewtype_filter, sewer_filter)
    /\ pending' = Tail(pending)
    /\ UNCHANGED <<contents, stored, status, machine_options, sewtype_options,
                   sewer_options, machine_filter, sewtype_filter, sewer_filter,
                   view_by, color_by>>
    /\ UNCHANGED deskVars

\* A selection in a dropdown (clearable: one of its options, or None) is an
\* input of update_dynamic_graph, which the framework runs with the new value.
SelectViewBy(v) ==
    /\ Idle
    /\ v # view_by
    /\ view_by' = v
    /\ figure' = update_dynamic_graph(stored, v, color_by, machine_filter,
                                      sewtype_filter, sewer_filter)
    /\ UNCHANGED <<contents, stored, status, machine_options, sewtype_options,
                   sewer_options, machine_filter, sewtype_filter, sewer_filter,
                   color_by, pending>>
    /\ UNCHANGED deskVars

SelectColorBy(v) ==
    /\ Idle
    /\ v # color_by
    /\ color_by' = v
    /\ figure' = update_dynamic_graph(stored, view_by, v, machine_filter,
                                      sewtype_filter, sewer_filter)
    /\ UNCHANGED <<contents, stored, status, machine_options, sewtype_options,
                   sewer_options, machine_filter, sewtype_filter, sewer_filter,
                   view_by, pending>>
    /\ UNCHANGED deskVars

SelectMachineFilter(v) ==
    /\ Idle
    /\ v # machine_filter
    /\ machine_filter' = v
    /\ figure' = update_dynamic_graph(stored, view_by, color_by, v,
                                      sewtype_filter, sewer_filter)
    /\ UNCHANGED <<contents, stored, status, machine_options, sewtype_options,
                   sewer_options, sewtype_filter, sewer_filter, view_by, color_by,
                   pending>>
    /\ UNCHANGED deskVars

SelectSewTypeFilter(v) ==
    /\ Idle
    /\ v # sewtype_filter
    /\ sewtype_filter' = v
    /\ figure' = update_dynamic_graph(stored, view_by, color_by, machine_filter,
                                      v, sewer_filter)
    /\ UNCHANGED <<contents, stored, status, machine_options, sewtype_options,
                   sewer_options, machine_filter, sewer_filter, view_by, color_by,
                   pending>>
    /\ UNCHANGED deskVars

SelectSewerFilter(v) ==
    /\ Idle
    /\ v # sewer_filter
    /\ sewer_filter' = v
    /\ figure' = update_dynamic_graph(stored, view_by, color_by, machine_filter,
                                      sewtype_filter, v)
    /\ UNCHANGED <<contents, stored, status, machine_options, sewtype_options,
                   sewer_options, machine_filter, sewtype_filter, view_by, color_by,
                   pending>>
    /\ UNCHANGED deskVars

Callbacks ==
    \/ RunParseUpload
    \/ RunUpdateFilterOptions
    \/ RunUpdateDynamicGraph

ViewSelection == \E v \in ViewOptions \cup {NoneName} : SelectViewBy(v)

ColorSelection == \E v \in ViewOptions \cup {NoneName} : SelectColorBy(v)

FilterSelections ==
    \/ \E v \in Range(machine_options) \cup {NoneValue} : SelectMachineFilter(v)
    \/ \E v \in Range(sewtype_options) \cup {NoneValue} : SelectSewTypeFilter(v)
    \/ \E v \in Range(sewer_options) \cup {NoneValue} : SelectSewerFilter(v)

\* A session: the page loads with no upload, then uploads and selections.
Init ==
    /\ contents = <<>>
    /\ pending = <<"parse_upload">>
    /\ DashLayout
    /\ DeskIdle

Next ==
    \/ \E f \in SessionFiles : Upload(f)
    \/ Callbacks
    \/ ViewSelection
    \/ ColorSelection
    \/ FilterSelections

Spec == Init /\ [][Next]_vars

\* One upload of any file a loader has to judge, and the callbacks it sets off.
LoadInit ==
    /\ contents \in {<<>>} \cup {<<f>> : f \in LoadFiles}
    /\ pending = <<"parse_upload">>
    /\ DashLayout
    /\ DeskIdle

LoadNext == Callbacks

LoadSpec == LoadInit /\ [][LoadNext]_vars

\* One upload of a clean file, then any selections.
FilterInit ==
    /\ contents \in {<<>>} \cup {<<f>> : f \in FilterFiles}
    /\ pending = <<"parse_upload">>
    /\ DashLayout
    /\ DeskIdle

FilterNext ==
    \/ Callbacks
    \/ ViewSelection
    \/ ColorSelection
    \/ FilterSelections

FilterSpec == FilterInit /\ [][FilterNext]_vars

----------------------------------------------------------------------------
(* The desktop app: src/Locally Ran/gantt_app.py *)

\* df["Sewer Name"].str.strip(): a missing cell stays missing.
StripSewer(c) == IF c.t = "str" THEN Str(strip(c.v)) ELSE NaN

\* The .str accessor raises on a column that holds no text at all.
StrAccessorRaises(rows) == rows # <<>> /\ \A i \in 1..Len(rows) : rows[i].sewer.t # "str"

\* sort_values: ascending, missing values last.
TextNaLast(x, y) ==
    \/ x.t = "str" /\ y.t # "str"
    \/ x.t = "str" /\ y.t = "str" /\ StrLess(x.v, y.v)
TimeNaLast(x, y) ==
    \/ x.t = "ts" /\ y.t # "ts"
    \/ x.t = "ts" /\ y.t = "ts" /\ x.v < y.v
BySewerThenStart(x, y) ==
    \/ TextNaLast(x.sewer, y.sewer)
    \/ x.sewer = y.sewer /\ TimeNaLast(x.start, y.start)

LoadedRows(f) ==
    [i \in 1..Len(f.rows) |->
        [sewer   |-> StripSewer(f.rows[i].sewer),
         machine |-> f.rows[i].machine,
         type    |-> f.rows[i].type,
         start   |-> to_datetime(f.rows[i].start),
         op      |-> f.rows[i].op,
         end     |-> EndTime(to_datetime(f.rows[i].start), f.rows[i].op)]]

load_and_process_data(f) ==
    IF \/ f.cols = {}
       \/ "Sewer Name" \notin f.cols
       \/ StrAccessorRaises(f.rows)
       \/ "Start Time" \notin f.cols
       \/ DatetimeRaises(f.rows)
       \/ "Operation Time" \notin f.cols
       \/ TimedeltaRaises(f.rows)
    THEN [raised |-> TRUE, df |-> <<>>]
    ELSE [raised |-> FALSE,
          df |-> <<[cols |-> f.cols,
                    rows |-> StableSort(LoadedRows(f), BySewerThenStart)]>>]

RECURSIVE SumSeq(_)
SumSeq(s) == IF s = <<>> THEN 0 ELSE Head(s) + SumSeq(Tail(s))

\* Series.sum() of one group: missing durations are skipped.
GroupSum(rows, sewer, type) ==
    LET In(r) == r.sewer = sewer /\ r.type = type /\ r.op.t = "num"
        group == SelectSeq(rows, In)
    IN SumSeq([i \in 1..Len(group) |-> group[i].op.v])

BySewerThenType(x, y) ==
    \/ StrLess(x.sewer.v, y.sewer.v)
    \/ x.sewer = y.sewer /\ StrLess(x.type.v, y.type.v)

\* df.groupby(["Sewer Name", "Sew Type"])["Operation Time"].sum().reset_index():
\* one row per key, keys with a missing part dropped, in key order.
Grouped(rows) ==
    LET keys == {<<rows[i].sewer, rows[i].type>> : i \in
                    {j \in 1..Len(rows) : rows[j].sewer.t = "str" /\ rows[j].type.t = "str"}}
        table == SetToSeq({[sewer |-> k[1], type |-> k[2],
                            total |-> GroupSum(rows, k[1], k[2])] : k \in keys})
    IN StableSort(table, BySewerThenType)

\* A slip: the last maximum instead of the first.
IdxMaxLast(grouped, sewer) ==
    LET own == {i \in 1..Len(grouped) : grouped[i].sewer = sewer}
    IN CHOOSE i \in own :
        \A j \in own : /\ grouped[j].total <= grouped[i].total
                       /\ (j > i => grouped[j].total < grouped[i].total)

\* idxmax: the first row of the sewer's rows of grouped that holds the maximum.
IdxMax(grouped, sewer) ==
    LET own == {i \in 1..Len(grouped) : grouped[i].sewer = sewer}
    IN CHOOSE i \in own :
        \A j \in own : /\ grouped[j].total <= grouped[i].total
                       /\ (j < i => grouped[j].total < grouped[i].total)

\* grouped.loc[grouped.groupby("Sewer Name")["Operation Time"].idxmax()]
DominantOf(grouped) ==
    With(SortedUnique({grouped[i].sewer : i \in 1..Len(grouped)}),
         LAMBDA sewers : [k \in 1..Len(sewers) |-> grouped[IdxMax(grouped, sewers[k])]])
Dominant(table) == With(table, LAMBDA grouped : DominantOf(grouped))

\* A slip: ascending=[True, True].
ByTypeThenTimeAscending(x, y) ==
    \/ StrLess(x.type.v, y.type.v)
    \/ x.type = y.type /\ x.total < y.total

\* sort_values(by=["Sew Type", "Dominant Time"], ascending=[True, False])
ByTypeThenTimeDescending(x, y) ==
    \/ StrLess(x.type.v, y.type.v)
    \/ x.type = y.type /\ x.total > y.total

DominantSorted(rows) == StableSort(Dominant(Grouped(rows)), ByTypeThenTimeDescending)

group_and_sort_sewers(frame0) ==
    With(frame0, LAMBDA df :
    IF "Sew Type" \notin df.cols
    THEN [raised |-> TRUE, dominant |-> <<>>, sewers |-> <<>>]
    ELSE With(DominantSorted(df.rows),
              LAMBDA dominant_sorted :
                [raised |-> FALSE,
                 dominant |-> dominant_sorted,
                 sewers |-> [i \in 1..Len(dominant_sorted) |-> dominant_sorted[i].sewer]]))

\* generate_gantt_chart: y_positions[row["Sewer Name"]] raises KeyError for a
\* sewer that is not in sorted_sewers.  What matplotlib makes of a frame with
\* no rows or of a missing sew type is left open.
generate_gantt_chart(df, sewers) ==
    IF \E i \in 1..Len(df.rows) : df.rows[i].sewer \notin Range(sewers)
    THEN {"error"}
    ELSE IF df.rows = <<>> \/ \E i \in 1..Len(df.rows) : df.rows[i].type.t # "str"
    THEN {"chart", "error"}
    ELSE {"chart"}

\* select_file_and_visualize: nothing on a cancelled dialog; any exception
\* ends in the error box.
SelectFileAndVisualize ==
    /\ dpc = "dialog"
    /\ dpc' = "idle"
    /\ IF csv = <<>>
       THEN UNCHANGED <<frame, dominant, sorted_sewers, popup>>
       ELSE \E loaded \in {load_and_process_data(csv[1])} :
            IF loaded.raised
            THEN /\ popup' = "error"
                 /\ UNCHANGED <<frame, dominant, sorted_sewers>>
            ELSE \E ranked \in {group_and_sort_sewers(loaded.df[1])} :
                 /\ frame' = loaded.df
                 /\ IF ranked.raised
                    THEN /\ popup' = "error"
                         /\ UNCHANGED <<dominant, sorted_sewers>>
                    ELSE /\ dominant' = <<ranked.dominant>>
                         /\ sorted_sewers' = <<ranked.sewers>>
                         /\ popup' \in generate_gantt_chart(loaded.df[1], ranked.sewers)
    /\ UNCHANGED csv
    /\ UNCHANGED dashVars

\* The dashboard before any callback ran, for the desktop app's runs.
DashIdle ==
    /\ contents = <<>>
    /\ pending = <<>>
    /\ DashLayout

DesktopInit ==
    /\ csv \in {<<>>} \cup {<<f>> : f \in DeskFiles}
    /\ frame = <<>>
    /\ dominant = <<>>
    /\ sorted_sewers = <<>>
    /\ popup = "none"
    /\ dpc = "dialog"
    /\ DashIdle

DesktopNext == SelectFileAndVisualize

DesktopSpec == DesktopInit /\ [][DesktopNext]_vars

----------------------------------------------------------------------------
(* Properties *)

\* The records the graph callback reads from the store.
StoredRecords == IF stored = <<>> THEN <<>> ELSE read_json(stored[1])

AllFiltersAll == machine_filter = ALL /\ sewtype_filter = ALL /\ sewer_filter = ALL

\* A record under the filters, read as "every filter whose value is not ALL".
MatchesNotAll(r) ==
    /\ machine_filter # ALL => r.machine = machine_filter
    /\ sewtype_filter # ALL => r.type = sewtype_filter
    /\ sewer_filter # ALL => r.sewer = sewer_filter

\* A filter that selects: neither ALL, nor cleared (None), nor the empty text.
Selects(value) == value # ALL /\ value # NoneValue /\ value # Str(<<>>)
MatchesSelected(r) ==
    /\ Selects(machine_filter) => r.machine = machine_filter
    /\ Selects(sewtype_filter) => r.type = sewtype_filter
    /\ Selects(sewer_filter) => r.sewer = sewer_filter

Rendered == Idle /\ stored # <<>> /\ figure.kind \in {"chart", "no_match"}

\* C4 as stated: the charted subset is exactly the stored records that match
\* every filter whose value is not ALL, and the whole dataset when all are ALL.
C4_SubsetMatchesEveryFilterNotAll ==
    Rendered =>
        /\ figure.rows = SelectSeq(StoredRecords, MatchesNotAll)
        /\ AllFiltersAll => figure.rows = StoredRecords

\* C4 amended: the charted subset is exactly the stored records, in their order,
\* that match every filter whose value is neither ALL nor empty (None or ""),
\* and the whole dataset when all three filters are ALL.
C4_SubsetMatchesEverySelectedFilter ==
    Rendered =>
        /\ figure.rows = SelectSeq(StoredRecords, MatchesSelected)
        /\ AllFiltersAll => figure.rows = StoredRecords

\* Two rows stored, one charted: the sewer filter drops a row while the cleared
\* machine filter drops none.
C4_Witness ==
    /\ Idle
    /\ figure.kind = "chart"
    /\ machine_filter = NoneValue
    /\ Selects(sewer_filter)
    /\ Len(figure.rows) < Len(StoredRecords)

ViewValue(r, name) ==
    IF name = "Machine Name" THEN r.machine
    ELSE IF name = "Sew Type" THEN r.type
    ELSE r.sewer

\* C5: the category axis is the ascending, duplicate-free list of the view_by
\* values of the whole dataset when all three filters are ALL, and of the
\* filtered subset otherwise.
C5_CategoryAxis ==
    (Idle /\ figure.kind = "chart") =>
        LET source == IF AllFiltersAll THEN StoredRecords ELSE figure.rows
            cats == figure.categories
        IN /\ figure.y = view_by
           /\ Range(cats) = {ViewValue(source[i], view_by) : i \in 1..Len(source)}
           /\ \A i, j \in 1..Len(cats) : i < j => StrLess(cats[i].v, cats[j].v)

\* A filter narrowed the chart, and the axis lacks a value of the whole dataset.
C5_Witness ==
    /\ Idle
    /\ figure.kind = "chart"
    /\ Selects(machine_filter) \/ Selects(sewtype_filter) \/ Selects(sewer_filter)
    /\ Range(figure.categories) #
            {ViewValue(StoredRecords[i], view_by) : i \in 1..Len(StoredRecords)}

\* C6 as stated: no dataset gives the empty figure, an empty subset the
\* no-match result, and anything else a chart.
C6_ThreeOutcomes ==
    Idle =>
        /\ stored = <<>> => figure.kind = "empty"
        /\ (stored # <<>> /\ SelectSeq(StoredRecords, MatchesSelected) = <<>>)
                => figure.kind = "no_match"
        /\ (stored # <<>> /\ SelectSeq(StoredRecords, MatchesSelected) # <<>>)
                => figure.kind = "chart"

\* C6 amended: no dataset gives the empty figure, an empty subset the no-match
\* result, and a non-empty subset a chart or, when building the chart raises,
\* the error result; the empty subset is never reported as an error.
C6_OutcomesWithError ==
    Idle =>
        /\ stored = <<>> => figure.kind = "empty"
        /\ (stored # <<>> /\ SelectSeq(StoredRecords, MatchesSelected) = <<>>)
                => figure.kind = "no_match"
        /\ (stored # <<>> /\ SelectSeq(StoredRecords, MatchesSelected) # <<>>)
                => figure.kind \in {"chart", "error"}

\* No record matches while the view is cleared, which would make a chart fail:
\* the result is still the no-match one.
C6_Witness ==
    /\ Idle
    /\ StoredRecords # <<>>
    /\ view_by = NoneName
    /\ figure.kind = "no_match"

HasRequiredColumns(f) ==
    {"Sewer Name", "Start Time", "Operation Time", "Sew Type"} \subseteq f.cols

\* C7: a load is all or nothing: a missing required column is named and nothing
\* is stored; a Start Time that is not YYYY-MM-DD HH:MM stores nothing and
\* is not reported as a success; never fewer records than rows.
C7_LoadAllOrNothing ==
    (Idle /\ contents # <<>>) =>
        LET f == contents[1] IN
        /\ (f.cols # {} /\ ~HasRequiredColumns(f)) =>
                /\ stored = <<>>
                /\ status.kind = "missing_column"
                /\ status.col \notin f.cols
        /\ (HasRequiredColumns(f) /\ \E i \in 1..Len(f.rows) : f.rows[i].start.t # "ts") =>
                /\ stored = <<>>
                /\ status.kind # "uploaded"
        /\ stored # <<>> => Len(stored[1].data) = Len(f.rows)

\* C8: every stored record ends at its start plus its Operation Time, and never
\* before its start.
C8_EndAfterStart ==
    (Idle /\ stored # <<>>) =>
        \A i \in 1..Len(stored[1].data) :
            LET r == stored[1].data[i] IN
            (r.start.t = "iso" /\ r.op.t = "num") =>
                /\ r.end.t = "iso"
                /\ r.end.v = r.start.v + r.op.v
                /\ r.end.v >= r.start.v

\* C9: no stored record has an empty sewer name, and a row whose Sewer Name is
\* empty or only whitespace makes the load fail.
C9_SewerNameNeverEmpty ==
    (Idle /\ contents # <<>> /\ HasRequiredColumns(contents[1])) =>
        /\ stored # <<>> =>
                \A i \in 1..Len(stored[1].data) : stored[1].data[i].sewer.v # <<>>
        /\ (\E i \in 1..Len(contents[1].rows) :
                \/ contents[1].rows[i].sewer.t # "str"
                \/ strip(contents[1].rows[i].sewer.v) = <<>>)
                => stored = <<>>

\* The stored record a row of the upload makes.
RecordOfRow(row, rec) ==
    /\ row.sewer.t = "str"
    /\ rec.sewer = Str(strip(row.sewer.v))
    /\ rec.type = row.type
    /\ rec.op = row.op
    /\ row.start.t = "ts"
    /\ rec.start = Iso(row.start.v)

\* C10: once the callbacks have run, the store holds exactly the records of the
\* most recent upload, or nothing, and the chart shows records of the store only.
C10_StoreIsLatestUpload ==
    Idle =>
        /\ contents = <<>> => stored = <<>>
        /\ stored # <<>> =>
                /\ contents # <<>>
                /\ Len(stored[1].data) = Len(contents[1].rows)
                /\ \A i \in 1..Len(stored[1].data) :
                        RecordOfRow(contents[1].rows[i], stored[1].data[i])
        /\ Range(figure.rows) \subseteq Range(StoredRecords)

----------------------------------------------------------------------------

Ranked == frame # <<>> /\ sorted_sewers # <<>> /\ dominant # <<>>

\* C1: the ranker's list holds every sewer of the records exactly once and
\* nobody else.
C1_RankerPermutation ==
    Ranked =>
        LET rows == frame[1].rows
            out == sorted_sewers[1]
        IN /\ Range(out) = {rows[i].sewer : i \in 1..Len(rows)}
           /\ Cardinality(Range(out)) = Len(out)

\* C2: in the ranker's list a sewer with a lexically smaller dominant sew type
\* comes first, and among sewers of one dominant sew type the one with the
\* strictly larger total comes first.
C2_RankerOrder ==
    Ranked =>
        LET table == dominant[1]
            out == sorted_sewers[1]
        IN /\ Len(out) = Len(table)
           /\ \A i \in 1..Len(table) : out[i] = table[i].sewer
           /\ \A i, j \in 1..Len(table) :
                /\ table[i].type # table[j].type =>
                        (i < j <=> StrLess(table[i].type.v, table[j].type.v))
                /\ (table[i].type = table[j].type /\ table[i].total > table[j].total)
                        => i < j

\* Two sewers of one dominant sew type, the second by name first by total.
C2_Witness ==
    /\ Ranked
    /\ \E i, j \in 1..Len(dominant[1]) :
            /\ i < j
            /\ dominant[1][i].type = dominant[1][j].type
            /\ dominant[1][i].total > dominant[1][j].total
            /\ StrLess(dominant[1][j].sewer.v, dominant[1][i].sewer.v)

\* The sew types a sewer has records of, and the time summed over them.
SewTypesOf(rows, sewer) ==
    {rows[i].type : i \in {j \in 1..Len(rows) :
                              rows[j].sewer = sewer /\ rows[j].type.t = "str"}}

RECURSIVE TimeUpTo(_, _, _, _)
TimeUpTo(rows, sewer, type, n) ==
    IF n = 0 THEN 0
    ELSE TimeUpTo(rows, sewer, type, n - 1)
            + (IF rows[n].sewer = sewer /\ rows[n].type = type /\ rows[n].op.t = "num"
               THEN rows[n].op.v ELSE 0)
TotalTime(rows, sewer, type) == TimeUpTo(rows, sewer, type, Len(rows))

\* The first row of the sewer with the sew type.
FirstRow(rows, sewer, type) ==
    CHOOSE i \in 1..Len(rows) :
        /\ rows[i].sewer = sewer /\ rows[i].type = type
        /\ \A j \in 1..(i - 1) : ~(rows[j].sewer = sewer /\ rows[j].type = type)

\* The same in the file, whose sewer names are not stripped yet.
FirstLine(lines, sewer, type) ==
    CHOOSE i \in 1..Len(lines) :
        /\ StripSewer(lines[i].sewer) = sewer /\ lines[i].type = type
        /\ \A j \in 1..(i - 1) :
                ~(StripSewer(lines[j].sewer) = sewer /\ lines[j].type = type)

DominantIsMaximal(rows, d) ==
    /\ d.type \in SewTypesOf(rows, d.sewer)
    /\ d.total = TotalTime(rows, d.sewer, d.type)
    /\ \A ty \in SewTypesOf(rows, d.sewer) : TotalTime(rows, d.sewer, ty) <= d.total

Tied(rows, d) ==
    {ty \in SewTypesOf(rows, d.sewer) \ {d.type} :
        TotalTime(rows, d.sewer, ty) = d.total}

\* C3 as stated: the dominant sew type has the maximal summed time, and of
\* several with that sum it is the one seen first in input row order (read
\* as kindly as possible: first in the frame passed in, or first in the file).
C3_DominantFirstSeen ==
    Ranked =>
        \A k \in 1..Len(dominant[1]) :
            LET d == dominant[1][k]
                rows == frame[1].rows
                lines == csv[1].rows
            IN /\ DominantIsMaximal(rows, d)
               /\ \A ty \in Tied(rows, d) :
                    \/ FirstRow(rows, d.sewer, d.type) < FirstRow(rows, d.sewer, ty)
                    \/ FirstLine(lines, d.sewer, d.type) < FirstLine(lines, d.sewer, ty)

\* C3 amended: the dominant sew type has the maximal summed time, and of several
\* with that sum it is the lexically smallest.
C3_DominantLexicallySmallest ==
    Ranked =>
        \A k \in 1..Len(dominant[1]) :
            LET d == dominant[1][k]
                rows == frame[1].rows
            IN /\ DominantIsMaximal(rows, d)
               /\ \A ty \in Tied(rows, d) : StrLess(d.type.v, ty.v)

\* A sewer with the same summed time in two sew types.
C3_Witness ==
    /\ Ranked
    /\ \E k \in 1..Len(dominant[1]) : Tied(frame[1].rows, dominant[1][k]) # {}

====
